---- MODULE Spec2Model ----
(***************************************************************************)
(* Model of the two command-line utilities check_tasks.py and show_task.py *)
(* reading the task store project-tasks.json.  One behaviour is one        *)
(* invocation of one of the two programs against one state of the store    *)
(* file; the actions are the statements of the scripts in program order.   *)
(***************************************************************************)
EXTENDS Integers, Sequences, FiniteSets, TLC

\* ------------------------------------------------------------------------
\* Bounds and sample domains
\* ------------------------------------------------------------------------

\* Largest number of records of a store.
MaxTasks == 2

\* Marker of a key that a record does not have (dict.get falls back to its
\* default, t[...] raises KeyError).
Missing == "<missing>"

\* Values of the "id" key of the records.  Every record has the key, as
\* the store's schema requires, and its value is an integer.
Ids == {0, 1}

\* Values of the optional keys.  "passes" holds the JSON literal.
Titles == {Missing, "A"}
PassesValues == {Missing, "true", "false"}
Descriptions == {Missing, "D"}
Criteria == {Missing, "G"}

TaskRecords ==
    [id : Ids, title : Titles, passes : PassesValues,
     description : Descriptions, acceptanceCriteria : Criteria]

RECURSIVE SeqsUpTo(_, _)
SeqsUpTo(S, n) ==
    IF n = 0 THEN {<<>>}
    ELSE LET shorter == SeqsUpTo(S, n - 1)
         IN  shorter \cup {Append(s, x) : s \in {t \in shorter : Len(t) = n - 1}, x \in S}

Stores == SeqsUpTo(TaskRecords, MaxTasks)

\* The states of project-tasks.json: no such file, text that is not JSON, a
\* JSON object without the "tasks" key, a JSON object with it.
Files ==
    {[kind |-> k, tasks |-> <<>>] : k \in {"missing", "invalid", "nokey"}}
        \cup {[kind |-> "ok", tasks |-> s] : s \in Stores}

\* sys.argv[1:], every argument a sequence of characters.
Arguments == {<<"0">>, <<"1">>, <<"2">>, <<"-", "1">>, <<"a">>, <<>>}
ArgVectors == {<<>>} \cup {<<a>> : a \in Arguments}

\* ------------------------------------------------------------------------
\* Python values and built-ins
\* ------------------------------------------------------------------------

None == [tag |-> "None", val |-> 0]
IntValue(n) == [tag |-> "int", val |-> n]
Raised(e) == [tag |-> e, val |-> 0]

Digits == {"0", "1", "2", "3", "4", "5", "6", "7", "8", "9"}

DigitValue(c) ==
    CASE c = "0" -> 0 [] c = "1" -> 1 [] c = "2" -> 2 [] c = "3" -> 3
      [] c = "4" -> 4 [] c = "5" -> 5 [] c = "6" -> 6 [] c = "7" -> 7
      [] c = "8" -> 8 [] c = "9" -> 9

RECURSIVE DigitsValue(_)
DigitsValue(s) ==
    IF s = <<>> THEN 0
    ELSE 10 * DigitsValue(SubSeq(s, 1, Len(s) - 1)) + DigitValue(s[Len(s)])

AllDigits(s) == s # <<>> /\ \A j \in 1..Len(s) : s[j] \in Digits

\* int(text): an optional sign and decimal digits, ValueError otherwise.
\* The arguments of the model hold no whitespace and no underscore, which
\* int() would strip or skip.
int(s) ==
    IF AllDigits(s) THEN IntValue(DigitsValue(s))
    ELSE IF s # <<>> /\ s[1] \in {"+", "-"} /\ AllDigits(Tail(s))
         THEN IntValue(IF s[1] = "-" THEN 0 - DigitsValue(Tail(s))
                                     ELSE DigitsValue(Tail(s)))
         ELSE Raised("ValueError")

\* Truth value of None and of an int.
Truthy(v) == v.tag = "int" /\ v.val # 0

\* str(bool)
StrBool(b) == IF b THEN "True" ELSE "False"

\* t.get('passes', False) as a truth value: the JSON literal true is the
\* only value of the key that is truthy.
GetPasses(t) == IF t.passes = Missing THEN FALSE ELSE t.passes = "true"

\* t.get(key, '') of a text key.
GetText(v) == IF v = Missing THEN "" ELSE v

\* Variant of Remaining that forgets the filter.
RemainingKeepsAll(ts) == ts

\* [t for t in tasks if not t.get('passes', False)]
RECURSIVE Remaining(_)
Remaining(ts) ==
    IF ts = <<>> THEN <<>>
    ELSE IF ~GetPasses(Head(ts)) THEN <<Head(ts)>> \o Remaining(Tail(ts))
         ELSE Remaining(Tail(ts))

\* Variant of Passing with the default of the lookup turned to True.
PassingDefaultTrue(ts) == SelectSeq(ts, LAMBDA t : t.passes # "false")

\* [t for t in tasks if t.get("passes", False)]
RECURSIVE Passing(_)
Passing(ts) ==
    IF ts = <<>> THEN <<>>
    ELSE IF GetPasses(Head(ts)) THEN <<Head(ts)>> \o Passing(Tail(ts))
         ELSE Passing(Tail(ts))

\* Variant of NextTask that takes the last element.
NextTaskLast(rem) == rem[Len(rem)]

\* remaining[0]
NextTask(rem) == rem[1]

\* Variants of NoTaskId: a test for zero that lets None through, and a test
\* for presence that lets zero through.
NoTaskIdZeroOnly(v) == v.tag = "int" /\ v.val = 0
NoTaskIdNoneOnly(v) == v.tag = "None"

\* not task_id
NoTaskId(v) == ~Truthy(v)

\* ------------------------------------------------------------------------
\* State
\* ------------------------------------------------------------------------

VARIABLES
    file,       \* project-tasks.json in the working directory
    prog,       \* the program invoked: "idle", "check_tasks", "show_task"
    argv,       \* sys.argv[1:]
    pc,         \* the next statement
    opened,     \* open('project-tasks.json') has been called
    obj,        \* the parsed document (data / obj)
    task_id,    \* show_task: task_id
    tasks,      \* the list under iteration (tasks / obj['tasks'])
    remaining,  \* check_tasks: remaining
    idx,        \* show_task: position of the for loop, 1-based
    stdout,     \* the lines printed, one entry per print call
    stderr,     \* the uncaught exception whose trace is printed, "" if none
    exit        \* the exit status, -1 while the program runs

vars == <<file, prog, argv, pc, opened, obj, task_id, tasks, remaining, idx,
          stdout, stderr, exit>>

NoObj == [loaded |-> FALSE, hasTasks |-> FALSE, tasks |-> <<>>]

Init ==
    /\ file \in Files
    /\ prog = "idle"
    /\ argv = <<>>
    /\ pc = "idle"
    /\ opened = FALSE
    /\ obj = NoObj
    /\ task_id = None
    /\ tasks = <<>>
    /\ remaining = <<>>
    /\ idx = 0
    /\ stdout = <<>>
    /\ stderr = ""
    /\ exit = -1

\* The interpreter ends the program with status 0 after the last statement.
Finish(status) == pc' = "done" /\ exit' = status

\* An uncaught exception: trace on the error stream, status 1.
Crash(e) == pc' = "done" /\ exit' = 1 /\ stderr' = e

\* with open(...) as f: json.load(f)
LoadError(f) ==
    CASE f.kind = "missing" -> "FileNotFoundError"
      [] f.kind = "invalid" -> "JSONDecodeError"
      [] OTHER -> ""

\* Variant of ParsedDocument that reads a document without the tasks key as
\* one with an empty list.
ParsedDocumentDefaultTasks(f) ==
    [loaded |-> TRUE, hasTasks |-> TRUE, tasks |-> f.tasks]

ParsedDocument(f) ==
    [loaded |-> TRUE, hasTasks |-> f.kind = "ok", tasks |-> f.tasks]

\* ------------------------------------------------------------------------
\* Invocation
\* ------------------------------------------------------------------------

InvokeCheckTasks ==
    /\ pc = "idle"
    /\ prog' = "check_tasks"
    /\ pc' = "ct_load"
    /\ UNCHANGED <<file, argv, opened, obj, task_id, tasks, remaining, idx,
                   stdout, stderr, exit>>

InvokeShowTask ==
    /\ pc = "idle"
    /\ \E a \in ArgVectors : argv' = a
    /\ prog' = "show_task"
    /\ pc' = "st_parse"
    /\ UNCHANGED <<file, opened, obj, task_id, tasks, remaining, idx,
                   stdout, stderr, exit>>

\* ------------------------------------------------------------------------
\* check_tasks.py
\* ------------------------------------------------------------------------

\* with open('project-tasks.json') as f: data = json.load(f)
CheckTasksLoad ==
    /\ pc = "ct_load"
    /\ opened' = TRUE
    /\ IF LoadError(file) # ""
       THEN Crash(LoadError(file)) /\ UNCHANGED obj
       ELSE /\ obj' = ParsedDocument(file)
            /\ pc' = "ct_tasks"
            /\ UNCHANGED <<stderr, exit>>
    /\ UNCHANGED <<file, prog, argv, task_id, tasks, remaining, idx, stdout>>

\* tasks = data['tasks']; remaining = [...]
CheckTasksPartition ==
    /\ pc = "ct_tasks"
    /\ IF ~obj.hasTasks
       THEN Crash("KeyError") /\ UNCHANGED <<tasks, remaining>>
       ELSE /\ tasks' = obj.tasks
            /\ remaining' = Remaining(obj.tasks)
            /\ pc' = "ct_print"
            /\ UNCHANGED <<stderr, exit>>
    /\ UNCHANGED <<file, prog, argv, opened, obj, task_id, idx, stdout>>

\* The three counts and the blank line.
CheckTasksPrintCounts ==
    /\ pc = "ct_print"
    /\ stdout' = stdout \o
            << "Total: " \o ToString(Len(tasks)),
               "Passing: " \o ToString(Len(Passing(tasks))),
               "Remaining: " \o ToString(Len(remaining)),
               "" >>
    /\ pc' = "ct_branch"
    /\ UNCHANGED <<file, prog, argv, opened, obj, task_id, tasks, remaining,
                   idx, stderr, exit>>

\* if remaining: the header, the id and the title of remaining[0];
\* t["title"] raises KeyError after the id line when the key is missing.
CheckTasksPrintNext ==
    /\ pc = "ct_branch"
    /\ remaining # <<>>
    /\ LET t == NextTask(remaining)
           upToId == stdout \o << "Next not-passing task:",
                                  "  ID: " \o ToString(t.id) >>
       IN  IF t.title = Missing
           THEN stdout' = upToId /\ Crash("KeyError")
           ELSE /\ stdout' = Append(upToId, "  Title: " \o t.title)
                /\ Finish(0)
                /\ UNCHANGED stderr
    /\ UNCHANGED <<file, prog, argv, opened, obj, task_id, tasks, remaining, idx>>

\* else: print('All tasks are passing!')
CheckTasksPrintAllPassing ==
    /\ pc = "ct_branch"
    /\ remaining = <<>>
    /\ stdout' = Append(stdout, "All tasks are passing!")
    /\ Finish(0)
    /\ UNCHANGED <<file, prog, argv, opened, obj, task_id, tasks, remaining,
                   idx, stderr>>

\* ------------------------------------------------------------------------
\* show_task.py
\* ------------------------------------------------------------------------

Usage == "Usage: python show_task.py <task_id>"

\* task_id = int(sys.argv[1]) if len(sys.argv) > 1 else None
ShowTaskParseArg ==
    /\ pc = "st_parse"
    /\ LET v == IF Len(argv) > 0 THEN int(argv[1]) ELSE None
       IN  IF v.tag = "ValueError"
           THEN Crash("ValueError") /\ UNCHANGED task_id
           ELSE /\ task_id' = v
                /\ pc' = "st_check"
                /\ UNCHANGED <<stderr, exit>>
    /\ UNCHANGED <<file, prog, argv, opened, obj, tasks, remaining, idx, stdout>>

\* if not task_id: print usage; sys.exit(1)
ShowTaskUsage ==
    /\ pc = "st_check"
    /\ NoTaskId(task_id)
    /\ stdout' = Append(stdout, Usage)
    /\ Finish(1)
    /\ UNCHANGED <<file, prog, argv, opened, obj, task_id, tasks, remaining,
                   idx, stderr>>

\* with open('project-tasks.json', ...) as f: obj = json.load(f)
ShowTaskLoad ==
    /\ pc = "st_check"
    /\ ~NoTaskId(task_id)
    /\ opened' = TRUE
    /\ IF LoadError(file) # ""
       THEN Crash(LoadError(file)) /\ UNCHANGED obj
       ELSE /\ obj' = ParsedDocument(file)
            /\ pc' = "st_tasks"
            /\ UNCHANGED <<stderr, exit>>
    /\ UNCHANGED <<file, prog, argv, task_id, tasks, remaining, idx, stdout>>

\* for t in obj['tasks']: the iterable is evaluated once
ShowTaskIterate ==
    /\ pc = "st_tasks"
    /\ IF ~obj.hasTasks
       THEN Crash("KeyError") /\ UNCHANGED <<tasks, idx>>
       ELSE /\ tasks' = obj.tasks
            /\ idx' = 1
            /\ pc' = "st_loop"
            /\ UNCHANGED <<stderr, exit>>
    /\ UNCHANGED <<file, prog, argv, opened, obj, task_id, remaining, stdout>>

\* if t['id'] == task_id: false, the loop moves to the next record
ShowTaskSkip ==
    /\ pc = "st_loop"
    /\ idx <= Len(tasks)
    /\ tasks[idx].id # task_id.val
    /\ idx' = idx + 1
    /\ UNCHANGED <<file, prog, argv, pc, opened, obj, task_id, tasks,
                   remaining, stdout, stderr, exit>>

\* The four lines of the detail of record t.
Detail(t) ==
    << "# " \o ToString(t.id) \o ": " \o t.title,
       "passes: " \o StrBool(GetPasses(t)),
       "\nDescription:\n" \o GetText(t.description),
       "\nAcceptance criteria (Gherkin):\n" \o GetText(t.acceptanceCriteria) >>

\* if t['id'] == task_id: the four prints and break; t['title'] raises
\* KeyError before anything is printed when the key is missing.
ShowTaskPrintDetail ==
    /\ pc = "st_loop"
    /\ idx <= Len(tasks)
    /\ tasks[idx].id = task_id.val
    /\ IF tasks[idx].title = Missing
       THEN Crash("KeyError") /\ UNCHANGED stdout
       ELSE /\ stdout' = stdout \o Detail(tasks[idx])
            /\ Finish(0)
            /\ UNCHANGED stderr
    /\ UNCHANGED <<file, prog, argv, opened, obj, task_id, tasks, remaining, idx>>

NotFound(k) == "Task " \o ToString(k) \o " not found"

\* for ... else: print not found; sys.exit(1)
ShowTaskNotFound ==
    /\ pc = "st_loop"
    /\ idx > Len(tasks)
    /\ stdout' = Append(stdout, NotFound(task_id.val))
    /\ Finish(1)
    /\ UNCHANGED <<file, prog, argv, opened, obj, task_id, tasks, remaining,
                   idx, stderr>>

Next ==
    \/ InvokeCheckTasks
    \/ InvokeShowTask
    \/ CheckTasksLoad
    \/ CheckTasksPartition
    \/ CheckTasksPrintCounts
    \/ CheckTasksPrintNext
    \/ CheckTasksPrintAllPassing
    \/ ShowTaskParseArg
    \/ ShowTaskUsage
    \/ ShowTaskLoad
    \/ ShowTaskIterate
    \/ ShowTaskSkip
    \/ ShowTaskPrintDetail
    \/ ShowTaskNotFound

Spec == Init /\ [][Next]_vars

TypeOK ==
    /\ file \in Files
    /\ prog \in {"idle", "check_tasks", "show_task"}
    /\ exit \in {-1, 0, 1}
    /\ (pc = "done") = (exit # -1)

\* ------------------------------------------------------------------------
\* Vocabulary of the properties, stated on the store file and the arguments
\* ------------------------------------------------------------------------

Done == pc = "done"

\* The run is show_task with one argument that is the decimal text of k.
ShowTaskWith(k) ==
    /\ prog = "show_task"
    /\ Len(argv) = 1
    /\ int(argv[1]) = IntValue(k)

HasId(ts, k) == \E i \in 1..Len(ts) : ts[i].id = k

FirstWithId(ts, k) ==
    ts[CHOOSE i \in 1..Len(ts) :
            ts[i].id = k /\ \A j \in 1..(i - 1) : ts[j].id # k]

NonPassing(t) == t.passes # "true"

NonPassingIndexes(ts) == {i \in 1..Len(ts) : NonPassing(ts[i])}
PassingIndexes(ts) == {i \in 1..Len(ts) : ts[i].passes = "true"}

\* The identifiers an argument can denote in this model.
ArgIds == -1..2

IdLines == {"  ID: " \o ToString(k) : k \in Ids}
TitleLines == {"  Title: " \o t : t \in Titles \ {Missing}}
AllPassingLine == "All tasks are passing!"
NextHeaderLine == "Next not-passing task:"

Printed(line) == \E i \in 1..Len(stdout) : stdout[i] = line

\* The outcome of show_task without an argument.
UsageOutcome ==
    /\ stdout = <<"Usage: python show_task.py <task_id>">>
    /\ exit = 1
    /\ stderr = ""
    /\ ~opened
    /\ obj = NoObj

\* ------------------------------------------------------------------------
\* Properties
\* ------------------------------------------------------------------------

\* C1: for every identifier k that is the id of a record of the store,
\* show_task k ends with status 0 and has printed exactly the title, passes
\* (False when absent), description (empty when absent) and
\* acceptanceCriteria (empty when absent) of the first record whose id is k.
\* Stated for the stores whose first record with id k has a title.
ShowTaskPrintsFirstMatch ==
    \A k \in ArgIds :
        ( /\ Done
          /\ ShowTaskWith(k)
          /\ file.kind = "ok"
          /\ HasId(file.tasks, k)
          /\ FirstWithId(file.tasks, k).title # Missing )
        => LET t == FirstWithId(file.tasks, k)
           IN  /\ exit = 0
               /\ stdout =
                    << "# " \o ToString(k) \o ": " \o t.title,
                       "passes: " \o (IF t.passes = "true" THEN "True" ELSE "False"),
                       "\nDescription:\n" \o
                            (IF t.description = Missing THEN "" ELSE t.description),
                       "\nAcceptance criteria (Gherkin):\n" \o
                            (IF t.acceptanceCriteria = Missing THEN ""
                             ELSE t.acceptanceCriteria) >>

\* C2: for every identifier k that is the id of no record of the store,
\* show_task k ends with status 1 and has printed the not-found message
\* naming k, and nothing else.
ShowTaskReportsAbsentId ==
    \A k \in ArgIds :
        ( /\ Done
          /\ ShowTaskWith(k)
          /\ file.kind = "ok"
          /\ ~HasId(file.tasks, k) )
        => /\ exit = 1
           /\ stdout = <<"Task " \o ToString(k) \o " not found">>

\* C3: when some record of the store is not passing, the next-task lines of
\* check_tasks are printed, and the id and the title they show are those of
\* the first record in store order whose passes is false or absent; every
\* record before it is passing.
NextIsFirstNonPassing ==
    /\ ( Done /\ prog = "check_tasks" /\ file.kind = "ok"
            /\ NonPassingIndexes(file.tasks) # {} )
       => Len(stdout) >= 6
    /\ ( prog = "check_tasks" /\ Len(stdout) >= 5 /\ stdout[5] # AllPassingLine )
       => /\ NonPassingIndexes(file.tasks) # {}
          /\ LET i == CHOOSE n \in NonPassingIndexes(file.tasks) :
                          \A m \in NonPassingIndexes(file.tasks) : n <= m
             IN  /\ \A j \in 1..(i - 1) : file.tasks[j].passes = "true"
                 /\ Len(stdout) >= 6
                 /\ stdout[5] = NextHeaderLine
                 /\ stdout[6] = "  ID: " \o ToString(file.tasks[i].id)
                 /\ Len(stdout) >= 7
                        => stdout[7] = "  Title: " \o file.tasks[i].title
                 /\ (Done /\ file.tasks[i].title # Missing) => Len(stdout) = 7

NextIsFirstNonPassingWitness ==
    /\ Done
    /\ prog = "check_tasks"
    /\ Len(file.tasks) = 2
    /\ file.tasks[1].passes = "true"
    /\ file.tasks[2].passes = Missing
    /\ file.tasks[1].id # file.tasks[2].id
    /\ Len(stdout) = 7
    /\ stdout[6] = "  ID: " \o ToString(file.tasks[2].id)

\* C4: the three counts printed by check_tasks are Total = Passing +
\* Remaining, where Passing is the number of records whose passes is true
\* and Remaining the number of all the other records.
CountsPartitionStore ==
    ( prog = "check_tasks" /\ stdout # <<>> )
    => \E p, r \in 0..Len(file.tasks) :
            /\ p = Cardinality(PassingIndexes(file.tasks))
            /\ r = Cardinality(NonPassingIndexes(file.tasks))
            /\ Len(stdout) >= 4
            /\ stdout[1] = "Total: " \o ToString(p + r)
            /\ stdout[2] = "Passing: " \o ToString(p)
            /\ stdout[3] = "Remaining: " \o ToString(r)
            /\ p + r = Len(file.tasks)

CountsPartitionStoreWitness ==
    /\ Done
    /\ prog = "check_tasks"
    /\ Len(file.tasks) = 2
    /\ file.tasks[1].passes = Missing
    /\ file.tasks[2].passes = "true"
    /\ stdout[1] = "Total: 2"
    /\ stdout[2] = "Passing: 1"
    /\ stdout[3] = "Remaining: 1"

\* C5: when no record of the store is non-passing (the empty store
\* included), check_tasks prints the counts and the all-passing message and
\* no task id or title; the all-passing message and the next-task lines are
\* never printed in the same run.
AllPassingExcludesNext ==
    /\ ( Done /\ prog = "check_tasks" /\ file.kind = "ok"
            /\ NonPassingIndexes(file.tasks) = {} )
       => /\ exit = 0
          /\ stdout = << "Total: " \o ToString(Len(file.tasks)),
                         "Passing: " \o ToString(Len(file.tasks)),
                         "Remaining: 0",
                         "",
                         AllPassingLine >>
    /\ ( prog = "check_tasks" /\ Printed(AllPassingLine) )
       => /\ ~Printed(NextHeaderLine)
          /\ \A l \in IdLines \cup TitleLines : ~Printed(l)

AllPassingExcludesNextWitness ==
    /\ Done
    /\ prog = "check_tasks"
    /\ Len(file.tasks) = 2
    /\ \A i \in 1..2 : file.tasks[i].passes = "true" /\ file.tasks[i].title = "A"
    /\ stdout[5] = AllPassingLine

\* C6: show_task without an argument prints the usage message and ends with
\* status 1, and at no point of the run has the store file been opened or
\* parsed, whatever the state of the file.
NoArgumentNeverLoads ==
    ( prog = "show_task" /\ argv = <<>> )
    => /\ ~opened
       /\ obj = NoObj
       /\ Done => UsageOutcome

NoArgumentNeverLoadsWitness ==
    /\ Done
    /\ prog = "show_task"
    /\ argv = <<>>
    /\ file.kind = "invalid"
    /\ stdout = <<Usage>>
    /\ exit = 1

\* C7: show_task with an argument that yields no usable identifier (text
\* that int() rejects, or that parses to a falsy value) prints the usage
\* message and ends with status 1, as without an argument.
UnusableArgumentPrintsUsage ==
    ( /\ Done
      /\ prog = "show_task"
      /\ Len(argv) = 1
      /\ int(argv[1]).tag = "ValueError" \/ int(argv[1]) = IntValue(0) )
    => /\ stdout = <<"Usage: python show_task.py <task_id>">>
       /\ exit = 1

\* C8: once the store is loaded (file present, valid JSON, tasks key
\* present), check_tasks ends with status 0 whatever keys the records have.
CheckTasksExitsZeroOnceLoaded ==
    ( Done /\ prog = "check_tasks" /\ file.kind = "ok" ) => exit = 0

\* C9: when the store cannot be loaded, check_tasks, and show_task with a
\* usable identifier, print nothing at any point of the run and end with a
\* non-zero status through an uncaught error.
LoadFailureIsFatalAndSilent ==
    ( /\ file.kind # "ok"
      /\ \/ prog = "check_tasks"
         \/ \E k \in ArgIds \ {0} : ShowTaskWith(k) )
    => /\ stdout = <<>>
       /\ Done => (exit # 0 /\ stderr # "")
       /\ pc \notin {"ct_print", "ct_branch", "st_loop"}

LoadFailureIsFatalAndSilentWitness ==
    /\ Done
    /\ prog = "show_task"
    /\ file.kind = "nokey"
    /\ task_id = IntValue(1)
    /\ stderr = "KeyError"
    /\ exit = 1

\* C10: show_task 0 has the outcome of show_task without an argument: the
\* usage message, status 1 and no load of the store, also when a record of
\* the store has the id 0.
ZeroArgumentIsNoArgument ==
    ShowTaskWith(0)
    => /\ ~opened
       /\ Done => UsageOutcome

ZeroArgumentIsNoArgumentWitness ==
    /\ Done
    /\ ShowTaskWith(0)
    /\ file.kind = "ok"
    /\ HasId(file.tasks, 0)
    /\ FirstWithId(file.tasks, 0).title = "A"
    /\ exit = 1

====
